---------------------------- MODULE Spec2Model ----------------------------
(***************************************************************************)
(* A model of the Go ray tracer src/src/go/gotrace.go: the tile scheduler  *)
(* and worker pool of main/Renderer.worker/Renderer.renderRect writing the *)
(* shared Texture, the Sphere/Group intersection engine, Scene.rayTrace    *)
(* and the colour-to-byte conversion f2b/SetV.                             *)
(*                                                                         *)
(* Numbers.  Lengths are integers in units of delta (Delta = 1); sphere    *)
(* centres, radii and ray origins are multiples of Unit.  Directions and   *)
(* normals are dimensionless integer vectors.  Colours are integers in     *)
(* units of 1/CDen.  On the inputs drawn here every float32 operation of   *)
(* the code is exact, so integer arithmetic computes what the code does.   *)
(***************************************************************************)
EXTENDS Integers, Sequences, FiniteSets, TLC

VARIABLES
    cfg,      \* main's parameters: level, w, h, chunkw, chunkh, workers, ss
    mpc,      \* main's position
    mx, my,   \* main's tile loop variables x, y
    mi,       \* main's counter w of the spawn / quit / join loops
    wpc,      \* each worker's position
    wrect,    \* each worker's current Rect r
    wx, wy,   \* each worker's pixel loop variables x, y in renderRect
    buf,      \* Texture.buf: byte offset -> byte
    writes,   \* history: pixel index -> number of SetRgba calls that wrote it
    sent,     \* history: number of Rects sent on jobChan
    rendered, \* history: number of renderRect calls that returned
    out,      \* what WriteTGA wrote
    fin,      \* input of a pure-function run (scene and ray, or a SetV call)
    fout,     \* its result
    fpc       \* which function was applied

rvars == <<cfg, mpc, mx, my, mi, wpc, wrect, wx, wy, buf, writes, sent, rendered, out>>
fvars == <<fin, fout, fpc>>
vars == <<cfg, mpc, mx, my, mi, wpc, wrect, wx, wy, buf, writes, sent, rendered, out, fin, fout, fpc>>

(***************************************************************************)
(* Bounds of the model.                                                    *)
(***************************************************************************)
MaxDim == 2
MaxChunk == 2
MaxWorkers == 2
MaxSent == 3

(***************************************************************************)
(* Program constants.                                                      *)
(***************************************************************************)
Level == 8
SS == 4
CDen == 10
backgroundColor == <<1, 1, 1>>
diffuseSphereColor == <<0, 7, 0>>
ambientSphereColor == <<2, 3, 2>>

(***************************************************************************)
(* Vec3 on integer triples.                                                *)
(***************************************************************************)
vec3add(a, b) == <<a[1] + b[1], a[2] + b[2], a[3] + b[3]>>
vec3sub(a, b) == <<a[1] - b[1], a[2] - b[2], a[3] - b[3]>>
vec3mulf(a, b) == <<a[1] * b, a[2] * b, a[3] * b>>
vec3dot(a, b) == a[1] * b[1] + a[2] * b[2] + a[3] * b[3]

(***************************************************************************)
(* Texture: NewTexture, SetRgba, f2b, SetV.                                *)
(***************************************************************************)
NewTexture(w, h) == [i \in 0 .. (w * h * 4 - 1) |-> 0]

\* one indexed store t.buf[i] = v; Go panics when i is out of range
StoreByte(st, i, v) ==
    IF st.ok /\ i \in DOMAIN st.buf
    THEN [ok |-> TRUE, buf |-> [st.buf EXCEPT ![i] = v]]
    ELSE [ok |-> FALSE, buf |-> st.buf]

SetRgbaOffsetRowH(w, h, x, y) == 4 * (h * y + x)
SetRgbaOffset(w, h, x, y) == 4 * (w * y + x)

SetRgba(b, w, h, x, y, r, g, bl, a) ==
    LET o == SetRgbaOffset(w, h, x, y)
        s0 == [ok |-> TRUE, buf |-> b]
        s1 == StoreByte(s0, o, r)
        s2 == StoreByte(s1, o + 1, g)
        s3 == StoreByte(s2, o + 2, bl)
    IN  StoreByte(s3, o + 3, a)

\* byte(scaled) for scaled = n/d, d > 0: Go truncates toward zero, a byte keeps 8 bits
ToByte(n, d) == (IF n >= 0 THEN n \div d ELSE -((-n) \div d)) % 256

f2bNoClamp(num, den) == ToByte(den + 2 * 255 * num, 2 * den)
\* f is num/den; scaled = 0.5 + f*255.0 = (den + 510 num) / (2 den)
f2b(num, den) ==
    LET sn == den + 2 * 255 * num
        sd == 2 * den
        clamped == IF sn < 0 THEN 0 ELSE IF sn > 255 * sd THEN 255 * sd ELSE sn
    IN  ToByte(clamped, sd)

SetV(b, w, h, x, y, v, den) ==
    SetRgba(b, w, h, x, y, f2b(v[1], den), f2b(v[2], den), f2b(v[3], den), 255)


formatTGAShort(value) == <<value % 256, (value \div 256) % 256>>

\* the 18-byte header, then the rows bottom-up, each pixel as B, G, R
WriteTGA(b, w, h) ==
    LET header == <<0, 0, 2, 0, 0, 0, 0, 0>> \o formatTGAShort(0) \o formatTGAShort(0)
                  \o formatTGAShort(w) \o formatTGAShort(h) \o <<24, 0>>
        pix(j) == LET p == (j - 1) \div 3
                      c == (j - 1) % 3
                      y == p \div w
                      x == p % w
                  IN  b[4 * (w * (h - 1 - y) + x) + (2 - c)]
    IN  IF w < 0 THEN "panic"
        ELSE header \o [j \in 1 .. (3 * w * h) |-> pix(j)]

(***************************************************************************)
(* Renderer.renderRect: the colour of one pixel.                           *)
(***************************************************************************)
\* ren.scene.rayTrace of the camera ray through sample (x + ssx/ss, y + ssy/ss).
\* rayTrace is a pure function of the ray over the immutable scene; the scene
\* rendered here is a fixed pattern over the three outcomes of rayTrace.
SampleColor(x, y, ssx, ssy) ==
    LET k == (x + 2 * y + ssx + 3 * ssy) % 3
    IN  IF k = 0 THEN backgroundColor
        ELSE IF k = 1 THEN ambientSphereColor
        ELSE vec3add(ambientSphereColor, vec3mulf(diffuseSphereColor, 1))

RECURSIVE SumComponent(_, _, _, _, _)
\* component c of g after i turns of the sub-sample loops (ssx outer, ssy inner)
SumComponent(x, y, ss, i, c) ==
    IF i = 0 THEN 0
    ELSE SumComponent(x, y, ss, i - 1, c)
         + SampleColor(x, y, (i - 1) \div ss, (i - 1) % ss)[c]

\* the two sub-sample loops: g = vec3add(g, rayTrace(ray)), from var g Vec3
SumSamples(x, y, ss, i) ==
    <<SumComponent(x, y, ss, i, 1), SumComponent(x, y, ss, i, 2), SumComponent(x, y, ss, i, 3)>>

\* the tint of worker k: Vec3{0.5, k/workers, 0.5}, kept as the pair k, workers
Tint(k, workers) == <<k, workers>>

PixelColorTinted(tint, x, y, ss) ==
    LET g == SumSamples(x, y, ss, ss * ss)
    IN  [v |-> <<g[1] * tint[2], g[2] * tint[1], g[3] * tint[2]>>,
         den |-> CDen * ss * ss * tint[2]]
\* the colour handed to SetV: g times 1/(ss*ss), as numerators v over den.
\* renderRect takes the tint and does not use it.
PixelColor(tint, x, y, ss) ==
    [v |-> SumSamples(x, y, ss, ss * ss), den |-> CDen * ss * ss]

\* the body of renderRect's pixel loops for pixel (x, y)
RenderPixel(b, c, tint, x, y) ==
    LET col == PixelColor(tint, x, y, c.ss)
    IN  SetV(b, c.w, c.h, x, c.h - (y + 1), col.v, col.den)

Rect(l, t, r, b) == [l |-> l, t |-> t, r |-> r, b |-> b]
isEmpty(r) == r.l = r.r \/ r.t = r.b
\* renderRect's loops run no pixel
NoPixel(r) == r.t >= r.b \/ r.l >= r.r

(***************************************************************************)
(* main: the parameters, and the tile loop.                                *)
(***************************************************************************)
Config(level, w, h, cw, ch, workers) ==
    [level |-> level, w |-> w, h |-> h, chunkw |-> cw, chunkh |-> ch,
     workers |-> workers, ss |-> SS]

\* the input contract: width, height, tile width, tile height > 0, workers >= 1
ValidConfigs ==
    {Config(Level, w, h, cw, ch, k) :
        w \in 1 .. MaxDim, h \in 1 .. MaxDim, cw \in 1 .. MaxChunk,
        ch \in 1 .. MaxChunk, k \in 1 .. MaxWorkers}

AnyConfigs ==
    {Config(lv, w, h, cw, ch, k) :
        lv \in {0, 1}, w \in -1 .. 2, h \in -1 .. 2, cw \in 0 .. 1,
        ch \in 0 .. 1, k \in 1 .. MaxWorkers}

Invalid(c) == c.level < 1 \/ c.w <= 0 \/ c.h <= 0 \/ c.chunkw = 0 \/ c.chunkh = 0

MaxStack == 10
RECURSIVE createSpherePyramidReturns(_, _)
\* the recursion of createSpherePyramid on level: it returns at level == 1 and
\* calls itself with level-1 otherwise; the goroutine stack is finite
createSpherePyramidReturns(level, stack) ==
    IF level = 1 THEN TRUE
    ELSE IF stack = 0 THEN FALSE
    ELSE createSpherePyramidReturns(level - 1, stack - 1)

\* for y ...; y += chunkh: the loop test at y, then the inner loop's at x = 0
OuterLoop(c, y) ==
    IF y >= c.h THEN <<"quit", 0, 0>>
    ELSE IF 0 < c.w THEN <<"tiles", 0, y>>
    ELSE IF c.chunkh > 0 THEN <<"quit", 0, 0>>
    ELSE <<"spin", 0, y>>

InnerLoopOneTile(c, x, y) == <<"quit", 0, 0>>
\* after the send at (x, y): x += chunkw and the inner loop's test
InnerLoop(c, x, y) ==
    IF x + c.chunkw < c.w THEN <<"tiles", x + c.chunkw, y>>
    ELSE OuterLoop(c, y + c.chunkh)

Workers == 0 .. (cfg.workers - 1)
Crashed == mpc \in {"panic", "overflow"}
SentCap == MaxDim * MaxDim + MaxSent
FIdle == [op |-> "none"]

InitRender(configs) ==
    /\ cfg \in configs
    /\ mpc = "alloc"
    /\ mx = 0 /\ my = 0 /\ mi = 0
    /\ wpc = [k \in 0 .. (cfg.workers - 1) |-> "unborn"]
    /\ wrect = [k \in 0 .. (cfg.workers - 1) |-> Rect(0, 0, 0, 0)]
    /\ wx = [k \in 0 .. (cfg.workers - 1) |-> 0]
    /\ wy = [k \in 0 .. (cfg.workers - 1) |-> 0]
    /\ buf = <<>>
    /\ writes = <<>>
    /\ sent = 0 /\ rendered = 0
    /\ out = <<>>
    /\ fin = FIdle /\ fout = FIdle /\ fpc = "none"

\* t := NewTexture(w, h)
MainAlloc ==
    /\ mpc = "alloc"
    /\ IF cfg.w * cfg.h * 4 < 0
       THEN mpc' = "panic" /\ UNCHANGED <<buf, writes>>
       ELSE /\ mpc' = "build"
            /\ buf' = NewTexture(cfg.w, cfg.h)
            /\ writes' = [p \in 0 .. (cfg.w * cfg.h - 1) |-> 0]
    /\ UNCHANGED <<cfg, mx, my, mi, wpc, wrect, wx, wy, sent, rendered, out>>
    /\ UNCHANGED fvars

\* sp := createSpherePyramid(level, ...); scene := createScene(light, sp)
MainBuild ==
    /\ mpc = "build"
    /\ mpc' = IF createSpherePyramidReturns(cfg.level, MaxStack) THEN "spawn" ELSE "overflow"
    /\ UNCHANGED <<cfg, mx, my, mi, wpc, wrect, wx, wy, buf, writes, sent, rendered, out>>
    /\ UNCHANGED fvars

\* go renderer.worker(tint), once per turn of the loop
MainSpawn ==
    /\ mpc = "spawn"
    /\ wpc' = [wpc EXCEPT ![mi] = "select"]
    /\ IF mi + 1 < cfg.workers
       THEN mi' = mi + 1 /\ UNCHANGED <<mpc, mx, my>>
       ELSE LET e == OuterLoop(cfg, 0)
            IN  mi' = 0 /\ mpc' = e[1] /\ mx' = e[2] /\ my' = e[3]
    /\ UNCHANGED <<cfg, wrect, wx, wy, buf, writes, sent, rendered, out>>
    /\ UNCHANGED fvars

\* the worker's select is ready to take a message
AtSelect(k) == wpc[k] = "select"
AtSelectOrRendering(k) == wpc[k] \in {"select", "render"}
\* case <-renderer.quitChan is taken only by a worker waiting in its select
QuitReady(k) == AtSelect(k)

\* renderer.jobChan <- Rect{x, y, x + chunkw, y + chunkh} meets case r := <-jobChan
\* what each step waits for
CanSendTile(k) == mpc = "tiles" /\ AtSelect(k) /\ sent < SentCap
CanRender(k) == ~Crashed /\ wpc[k] = "render"
CanSendQuit(k) == mpc = "quit" /\ QuitReady(k)
CanRecvJoin(k) == mpc = "join" /\ wpc[k] = "ack"
CanStep ==
    \/ mpc \in {"alloc", "build", "spawn", "write"}
    \/ \E k \in Workers : CanSendTile(k) \/ CanRender(k) \/ CanSendQuit(k) \/ CanRecvJoin(k)

SendTile(k) ==
    /\ CanSendTile(k)
    /\ LET r == Rect(mx, my, mx + cfg.chunkw, my + cfg.chunkh)
           n == InnerLoop(cfg, mx, my)
       IN  /\ mpc' = n[1] /\ mx' = n[2] /\ my' = n[3]
           /\ sent' = sent + 1
           /\ wrect' = [wrect EXCEPT ![k] = r]
           /\ IF NoPixel(r)
              THEN rendered' = rendered + 1 /\ UNCHANGED <<wpc, wx, wy>>
              ELSE /\ wpc' = [wpc EXCEPT ![k] = "render"]
                   /\ wx' = [wx EXCEPT ![k] = r.l]
                   /\ wy' = [wy EXCEPT ![k] = r.t]
                   /\ UNCHANGED rendered
    /\ UNCHANGED <<cfg, mi, buf, writes, out>>
    /\ UNCHANGED fvars

\* one turn of renderRect's pixel loop: the samples, SetV, x++ / y++
WorkerPixel(k) ==
    /\ CanRender(k)
    /\ LET r == wrect[k]
           res == RenderPixel(buf, cfg, Tint(k, cfg.workers), wx[k], wy[k])
           p == cfg.w * (cfg.h - (wy[k] + 1)) + wx[k]
       IN  /\ buf' = res.buf
           /\ IF ~res.ok
              THEN mpc' = "panic" /\ UNCHANGED <<wpc, wx, wy, writes, rendered>>
              ELSE /\ writes' = [writes EXCEPT ![p] = @ + 1]
                   /\ UNCHANGED mpc
                   /\ IF wx[k] + 1 < r.r
                      THEN wx' = [wx EXCEPT ![k] = @ + 1] /\ UNCHANGED <<wpc, wy, rendered>>
                      ELSE IF wy[k] + 1 < r.b
                      THEN /\ wx' = [wx EXCEPT ![k] = r.l]
                           /\ wy' = [wy EXCEPT ![k] = @ + 1]
                           /\ UNCHANGED <<wpc, rendered>>
                      ELSE /\ wpc' = [wpc EXCEPT ![k] = "select"]
                           /\ rendered' = rendered + 1
                           /\ UNCHANGED <<wx, wy>>
    /\ UNCHANGED <<cfg, mx, my, mi, wrect, sent, out>>
    /\ UNCHANGED fvars

\* renderer.quitChan <- true meets case <-renderer.quitChan
SendQuit(k) ==
    /\ CanSendQuit(k)
    /\ wpc' = [wpc EXCEPT ![k] = "ack"]
    /\ IF mi + 1 < cfg.workers
       THEN mi' = mi + 1 /\ UNCHANGED mpc
       ELSE mi' = 0 /\ mpc' = "join"
    /\ UNCHANGED <<cfg, mx, my, wrect, wx, wy, buf, writes, sent, rendered, out>>
    /\ UNCHANGED fvars

\* renderer.joinChan <- true meets <-renderer.joinChan; the worker returns
RecvJoin(k) ==
    /\ CanRecvJoin(k)
    /\ wpc' = [wpc EXCEPT ![k] = "returned"]
    /\ IF mi + 1 < cfg.workers
       THEN mi' = mi + 1 /\ UNCHANGED mpc
       ELSE mi' = 0 /\ mpc' = "write"
    /\ UNCHANGED <<cfg, mx, my, wrect, wx, wy, buf, writes, sent, rendered, out>>
    /\ UNCHANGED fvars

\* os.OpenFile, then t.WriteTGA(od) when err == nil
MainWrite ==
    /\ mpc = "write"
    /\ \E err \in BOOLEAN :
          LET tga == WriteTGA(buf, cfg.w, cfg.h)
          IN  IF err THEN mpc' = "done" /\ out' = <<>>
              ELSE IF tga = "panic" THEN mpc' = "panic" /\ out' = <<>>
              ELSE mpc' = "done" /\ out' = tga
    /\ UNCHANGED <<cfg, mx, my, mi, wpc, wrect, wx, wy, buf, writes, sent, rendered>>
    /\ UNCHANGED fvars

Next ==
    \/ MainAlloc
    \/ MainBuild
    \/ MainSpawn
    \/ \E k \in Workers : SendTile(k)
    \/ \E k \in Workers : WorkerPixel(k)
    \/ \E k \in Workers : SendQuit(k)
    \/ \E k \in Workers : RecvJoin(k)
    \/ MainWrite

Init == InitRender(ValidConfigs)
Spec == Init /\ [][Next]_vars

InitAny == InitRender(AnyConfigs)
SpecAnyConfig == InitAny /\ [][Next]_vars

\* the Go scheduler lets every goroutine that can run take its step
FairSpec == Spec /\ WF_vars(Next)

(***************************************************************************)
(* One thread rendering the same tiles one by one in scan order.           *)
(***************************************************************************)
RECURSIVE renderRectAlone(_, _, _, _, _)
\* renderRect(tint, r) run to its end: pixels 0 .. i-1 of r, rows first
renderRectAlone(st, c, tint, r, i) ==
    IF i = 0 THEN st
    ELSE LET prev == renderRectAlone(st, c, tint, r, i - 1)
             x == r.l + ((i - 1) % (r.r - r.l))
             y == r.t + ((i - 1) \div (r.r - r.l))
         IN  IF prev.ok THEN RenderPixel(prev.buf, c, tint, x, y) ELSE prev

TilesAcross(c) == (c.w + c.chunkw - 1) \div c.chunkw
TilesDown(c) == (c.h + c.chunkh - 1) \div c.chunkh

RECURSIVE renderTilesAlone(_, _)
\* main's tile loop with each Rect rendered before the next is made: tiles 0 .. j-1
renderTilesAlone(c, j) ==
    IF j = 0 THEN [ok |-> TRUE, buf |-> NewTexture(c.w, c.h)]
    ELSE LET prev == renderTilesAlone(c, j - 1)
             x == ((j - 1) % TilesAcross(c)) * c.chunkw
             y == ((j - 1) \div TilesAcross(c)) * c.chunkh
             r == Rect(x, y, x + c.chunkw, y + c.chunkh)
         IN  renderRectAlone(prev, c, Tint(0, 1), r, (r.r - r.l) * (r.b - r.t))

SingleThreaded(c) == renderTilesAlone(c, TilesAcross(c) * TilesDown(c))

(***************************************************************************)
(* Properties of the tile scheduler and the worker pool.                   *)
(***************************************************************************)
Pixels == 0 .. (cfg.w * cfg.h - 1)
Allocated == mpc \notin {"alloc"} /\ DOMAIN writes = Pixels
\* main has received the last acknowledgment from joinChan
Joined == mpc \in {"write", "done"}
RunEnded == mpc \in {"write", "done", "panic"}
TilesFit == cfg.w % cfg.chunkw = 0 /\ cfg.h % cfg.chunkh = 0

C2_JoinMeansRenderingOver ==
    /\ [](Joined => (rendered = sent /\ \A k \in Workers : wpc[k] = "returned"))
    /\ [][Joined => (buf' = buf /\ writes' = writes)]_vars

C2_Witness == mpc = "write" /\ cfg.workers = 2 /\ sent >= 4 /\ rendered = sent

\* C3: the run always completes: every reachable state is the completed run
\* (main has received `workers` acknowledgments, every worker has returned,
\* the output stage has run) or has a step to take.
C3_RunAlwaysCompletes ==
    \/ mpc = "done" /\ \A k \in Workers : wpc[k] = "returned"
    \/ CanStep

\* C3, under fair scheduling: main eventually receives all acknowledgments
C3_EventuallyJoined == <>Joined

\* what holds of the channel protocol when the tiles fit the image: no state
\* is stuck, and under fair scheduling the run completes
ProtocolNeverStuckWhenTilesFit == TilesFit => C3_RunAlwaysCompletes
ProtocolCompletesWhenTilesFit == TilesFit => <>(mpc = "done")

\* C4: with T x T tiles, T dividing width and height, the framebuffer after
\* the join equals, byte for byte, the one a single thread produces rendering
\* the same tiles one by one in scan order.
C4_SameAsSingleThreaded ==
    (Joined /\ cfg.chunkw = cfg.chunkh /\ TilesFit) => buf = SingleThreaded(cfg).buf

C4_Witness ==
    /\ mpc = "done" /\ cfg.chunkw = cfg.chunkh /\ TilesFit
    /\ cfg.workers = 2 /\ sent >= 4
    /\ \E i \in DOMAIN buf : buf[i] \notin {0, 255}

\* C5: an invalid parameter (level < 1, width or height <= 0, tile width or
\* height 0) is rejected with an error before any tile is sent and before
\* any framebuffer byte is written: the run neither diverges nor completes.
C5_InvalidIsRejected ==
    Invalid(cfg) =>
        /\ sent = 0
        /\ \A p \in DOMAIN writes : writes[p] = 0
        /\ mpc \notin {"overflow", "spin", "done"}

(***************************************************************************)
(* The intersection engine: Sphere.RaySphere, Sphere.Intersect,            *)
(* Group.Intersect, Scene.rayTrace.                                        *)
(***************************************************************************)
MaxPos == 3
MaxRad == 2
Unit == 4
Delta == 1
\* float32 +Inf: above every finite value; the code only compares with it
infinity == 1000000

RECURSIVE RootFrom(_, _)
RootFrom(a, s) == IF s * s >= a THEN s ELSE RootFrom(a, s + 1)
\* sqrtf on the perfect squares, where float32 is exact
sqrtf(a) == RootFrom(a, 0)
IsSquare(a) == a >= 0 /\ sqrtf(a) * sqrtf(a) = a

\* vec3mulf(a, 1.0/sqrtf(vec3dot(a, a)))
normalize(a) ==
    LET n == sqrtf(vec3dot(a, a))
    IN  <<a[1] \div n, a[2] \div n, a[3] \div n>>

Sphere(c, r) == [kind |-> "Sphere", center |-> c, radius |-> r]
NewGroup(bound, children) == [kind |-> "Group", bound |-> bound, children |-> children]
Hit(distance, pos) == [distance |-> distance, pos |-> pos]
hitinfinity == Hit(infinity, <<0, 0, 0>>)
Ray(orig, dir) == [orig |-> orig, dir |-> dir]

Disc(s, r) ==
    LET v == vec3sub(s.center, r.orig)
        b == vec3dot(v, r.dir)
    IN  b * b - vec3dot(v, v) + s.radius * s.radius

RaySphereNearRoot(s, r) ==
    LET v == vec3sub(s.center, r.orig)
        b == vec3dot(v, r.dir)
        disc == Disc(s, r)
    IN  IF disc < 0 THEN infinity
        ELSE IF b + sqrtf(disc) < 0 THEN infinity
        ELSE b - sqrtf(disc)
RaySphere(s, r) ==
    LET v == vec3sub(s.center, r.orig)
        b == vec3dot(v, r.dir)
        disc == Disc(s, r)
    IN  IF disc < 0 THEN infinity
        ELSE LET d == sqrtf(disc)
                 t2 == b + d
                 t1 == b - d
             IN  IF t2 < 0 THEN infinity
                 ELSE IF t1 > 0 THEN t1
                 ELSE t2

SphereIntersectNoCompare(s, h, r) ==
    LET lambda == RaySphere(s, r)
    IN  IF lambda = infinity THEN h
        ELSE Hit(lambda,
                 normalize(vec3add(r.orig, vec3sub(vec3mulf(r.dir, lambda), s.center))))
SphereIntersect(s, h, r) ==
    LET lambda == RaySphere(s, r)
    IN  IF lambda >= h.distance THEN h
        ELSE Hit(lambda,
                 normalize(vec3add(r.orig, vec3sub(vec3mulf(r.dir, lambda), s.center))))

GroupPrunesStrict(l, distance) == l > distance
\* Group.Intersect: if l >= h.distance { return }
GroupPrunes(l, distance) == l >= distance

\* what the instrumented traversal records: the call of a node's Intersect
\* and its return, with the hit record at that moment
Event(ev, n, depth, h) == [ev |-> ev, node |-> n, depth |-> depth, hit |-> h]

RECURSIVE Intersect(_, _, _, _, _)
RECURSIVE IntersectChildren(_, _, _, _, _, _)
\* Geometry.Intersect(h, r) on node n of scene sc; st holds *h and the record
Intersect(sc, n, depth, st, r) ==
    LET node == sc[n]
        called == [hit |-> st.hit, log |-> Append(st.log, Event("call", n, depth, st.hit))]
        return(s) == [hit |-> s.hit, log |-> Append(s.log, Event("ret", n, depth, s.hit))]
    IN  IF node.kind = "Sphere"
        THEN return([hit |-> SphereIntersect(node, st.hit, r), log |-> called.log])
        ELSE IF GroupPrunes(RaySphere(node.bound, r), st.hit.distance)
        THEN return(called)
        ELSE return(IntersectChildren(sc, node.children, 1, depth + 1, called, r))

\* for _, c := range g.children { c.Intersect(h, r) }, from child i on
IntersectChildren(sc, children, i, depth, st, r) ==
    IF i > Len(children) THEN st
    ELSE IntersectChildren(sc, children, i + 1, depth,
                           Intersect(sc, children[i], depth, st, r), r)

Root == 1
IntersectScene(sc, h, r) == Intersect(sc, Root, 0, [hit |-> h, log |-> <<>>], r)

\* the shadow ray of rayTrace
ShadowRay(hit, r, light) ==
    Ray(vec3add(r.orig, vec3add(vec3mulf(r.dir, hit.distance), vec3mulf(hit.pos, Delta))),
        vec3mulf(light, -1))

rayTraceKeepsDistance(sc, light, r) ==
    LET hit == IntersectScene(sc, hitinfinity, r).hit
        g == vec3dot(hit.pos, light)
    IN  IF hit.distance = infinity THEN backgroundColor
        ELSE IF g >= 0 THEN ambientSphereColor
        ELSE IF IntersectScene(sc, hit, ShadowRay(hit, r, light)).hit.distance < infinity
        THEN ambientSphereColor
        ELSE vec3add(ambientSphereColor, vec3mulf(diffuseSphereColor, -g))
rayTrace(sc, light, r) ==
    LET hit == IntersectScene(sc, hitinfinity, r).hit
        g == vec3dot(hit.pos, light)
        shadow == IntersectScene(sc, [hit EXCEPT !.distance = infinity],
                                 ShadowRay(hit, r, light)).hit
    IN  IF hit.distance = infinity THEN backgroundColor
        ELSE IF g >= 0 THEN ambientSphereColor
        ELSE IF shadow.distance < infinity THEN ambientSphereColor
        ELSE vec3add(ambientSphereColor, vec3mulf(diffuseSphereColor, -g))

(***************************************************************************)
(* The scenes, rays and hit records the engine is run on.  Centres lie on  *)
(* the x axis of a lattice of spacing Unit, rays start on the lattice and  *)
(* run along an axis: a unit direction, as the camera and rayTrace make.   *)
(***************************************************************************)
P(i) == <<i * Unit, 0, 0>>
Positions == 0 .. MaxPos
Radii == 1 .. MaxRad
BoundRadii == {1, MaxRad + 1}

\* a leaf
SceneA(i, r) == <<Sphere(P(i), r * Unit)>>
\* a Group of two leaves
SceneB(cb, rb, i, r, j) ==
    <<NewGroup(Sphere(P(cb), rb * Unit), <<2, 3>>),
      Sphere(P(i), r * Unit), Sphere(P(j), Unit)>>
\* a Group of its own sphere and a Group, as createSpherePyramid nests them
SceneC(i, rb, j, rb2) ==
    <<NewGroup(Sphere(P(i), rb * Unit), <<2, 3>>),
      Sphere(P(i), Unit),
      NewGroup(Sphere(P(j), rb2 * Unit), <<4, 5>>),
      Sphere(P(j), Unit), Sphere(P(j + 1), Unit)>>

Scenes ==
    {SceneA(i, r) : i \in Positions, r \in Radii}
    \cup {SceneB(cb, rb, i, r, j) : cb \in {1, 2}, rb \in BoundRadii,
                                    i \in Positions, r \in Radii, j \in Positions}
    \cup {SceneC(i, rb, j, rb2) : i \in Positions, rb \in BoundRadii,
                                  j \in Positions, rb2 \in BoundRadii}

Directions == {<<1, 0, 0>>, <<-1, 0, 0>>, <<0, 1, 0>>, <<0, -1, 0>>}
Rays ==
    {Ray(<<ox * Unit, oy * Unit, 0>>, d) :
        ox \in -1 .. (MaxPos + 1), oy \in 0 .. (MaxRad + 1), d \in Directions}
Lights == Directions
HitDistances == {infinity} \cup {k * Unit : k \in 0 .. MaxPos}

Leaves(sc) == {sc[n] : n \in {m \in DOMAIN sc : sc[m].kind = "Sphere"}}
Bounds(sc) == {sc[n].bound : n \in {m \in DOMAIN sc : sc[m].kind = "Group"}}
SpheresOf(sc) == {[center |-> s.center, radius |-> s.radius] : s \in Leaves(sc)} \cup
                 {[center |-> s.center, radius |-> s.radius] : s \in Bounds(sc)}

\* every square root taken for ray r in scene sc is of a perfect square
ExactRay(sc, r) == \A s \in SpheresOf(sc) : Disc(s, r) < 0 \/ IsSquare(Disc(s, r))

RenderOff ==
    /\ cfg = Config(Level, 1, 1, 1, 1, 1)
    /\ mpc = "off"
    /\ mx = 0 /\ my = 0 /\ mi = 0
    /\ wpc = <<>> /\ wrect = <<>> /\ wx = <<>> /\ wy = <<>>
    /\ buf = <<>> /\ writes = <<>>
    /\ sent = 0 /\ rendered = 0
    /\ out = <<>>

InitTrace ==
    /\ RenderOff
    /\ \E sc \in Scenes, r \in Rays :
          /\ ExactRay(sc, r)
          /\ fin = [scene |-> sc, ray |-> r]
    /\ fout = FIdle
    /\ fpc = "ready"

\* s.RaySphere(r) for a leaf or a bounding sphere of the scene
DoRaySphere ==
    /\ fpc = "ready"
    /\ \E s \in SpheresOf(fin.scene) :
          fout' = [op |-> "RaySphere", sphere |-> s, t |-> RaySphere(s, fin.ray)]
    /\ fpc' = "done"
    /\ UNCHANGED <<fin>>
    /\ UNCHANGED rvars

\* g.Intersect(&h, r) on the root, from any hit record
DoIntersect ==
    /\ fpc = "ready"
    /\ \E d \in HitDistances :
          LET h0 == Hit(d, <<0, 0, 0>>)
              res == IntersectScene(fin.scene, h0, fin.ray)
          IN  fout' = [op |-> "Intersect", h0 |-> h0, hit |-> res.hit, log |-> res.log]
    /\ fpc' = "done"
    /\ UNCHANGED <<fin>>
    /\ UNCHANGED rvars

\* the shadow ray rayTrace casts, when it casts one
CastsShadowRay(sc, light, r) ==
    LET hit == IntersectScene(sc, hitinfinity, r).hit
    IN  hit.distance # infinity /\ vec3dot(hit.pos, light) < 0
ShadowRayOf(sc, light, r) == ShadowRay(IntersectScene(sc, hitinfinity, r).hit, r, light)

\* scene.rayTrace(&ray) with the scene's light
DoRayTrace ==
    /\ fpc = "ready"
    /\ \E light \in Lights :
          /\ CastsShadowRay(fin.scene, light, fin.ray)
                => ExactRay(fin.scene, ShadowRayOf(fin.scene, light, fin.ray))
          /\ fout' = [op |-> "rayTrace", light |-> light,
                      color |-> rayTrace(fin.scene, light, fin.ray)]
    /\ fpc' = "done"
    /\ UNCHANGED <<fin>>
    /\ UNCHANGED rvars

NextTrace == DoRaySphere \/ DoIntersect \/ DoRayTrace
SpecTrace == InitTrace /\ [][NextTrace]_vars

(***************************************************************************)
(* Texture.SetV applied once to a fresh texture.                           *)
(***************************************************************************)
MaxComp == 12
\* numerators of the colour components, in units of 1/CDen
Components == (-2) .. MaxComp

InitSetV ==
    /\ cfg = Config(Level, 1, 1, 1, 1, 1)
    /\ mpc = "off"
    /\ mx = 0 /\ my = 0 /\ mi = 0
    /\ wpc = <<>> /\ wrect = <<>> /\ wx = <<>> /\ wy = <<>>
    /\ writes = <<>>
    /\ sent = 0 /\ rendered = 0
    /\ out = <<>>
    /\ \E w \in 1 .. MaxDim, h \in 1 .. MaxDim :
          /\ buf = NewTexture(w, h)
          /\ \E x \in 0 .. (w - 1), y \in 0 .. (h - 1), v \in Components \X Components \X Components :
                fin = [w |-> w, h |-> h, x |-> x, y |-> y, v |-> v]
    /\ fout = FIdle
    /\ fpc = "ready"

\* t.SetV(x, y, v)
DoSetV ==
    /\ fpc = "ready"
    /\ LET res == SetV(buf, fin.w, fin.h, fin.x, fin.y, fin.v, CDen)
       IN  /\ buf' = res.buf
           /\ fout' = [op |-> "SetV", ok |-> res.ok]
    /\ fpc' = "done"
    /\ UNCHANGED <<cfg, mpc, mx, my, mi, wpc, wrect, wx, wy, writes, sent, rendered, out, fin>>

NextSetV == DoSetV
SpecSetV == InitSetV /\ [][NextSetV]_vars

(***************************************************************************)
(* createSpherePyramid.  Radii are integers; centres are integers in units *)
(* of 1/sqrtf(12.0), so that rn = 3.0 * r / sqrtf(12.0) is the integer 3r. *)
(***************************************************************************)
MaxLevel == 3
Pow2(n) == 2 ^ n

PyramidOffsetDxOuter(i) == << (IF i <= 2 THEN -1 ELSE 1), 1, (IF i % 2 = 1 THEN -1 ELSE 1) >>
\* Vec3{float32(dx), 1.0, float32(dz)} of the i-th turn: dz is the outer loop
PyramidOffset(i) == << (IF i % 2 = 1 THEN -1 ELSE 1), 1, (IF i <= 2 THEN -1 ELSE 1) >>

PyramidBoundTight(c, r) == Sphere(c, 2 * r)
\* Sphere{c, 3 * r}
PyramidBound(c, r) == Sphere(c, 3 * r)

RECURSIVE createSpherePyramid(_, _, _)
createSpherePyramid(level, c, r) ==
    LET s == Sphere(c, r)
        rn == 3 * r
        newc(i) == vec3add(c, vec3mulf(PyramidOffset(i), rn))
    IN  IF level = 1 THEN s
        ELSE NewGroup(PyramidBound(c, r),
                      <<s>> \o [i \in 1 .. 4 |-> createSpherePyramid(level - 1, newc(i), r \div 2)])

PyramidCentres == {<<x, y, z>> : x \in {-1, 0, 1}, y \in {-1, 0}, z \in {0, 1}}
\* radii that every level halves exactly
PyramidRadii == {Pow2(MaxLevel - 1), 3 * Pow2(MaxLevel - 1)}

InitPyramid ==
    /\ RenderOff
    /\ \E level \in 1 .. MaxLevel, c \in PyramidCentres, r \in PyramidRadii :
          fin = [level |-> level, c |-> c, r |-> r]
    /\ fout = FIdle
    /\ fpc = "ready"

\* sp := createSpherePyramid(level, c, r)
DoCreate ==
    /\ fpc = "ready"
    /\ fout' = [op |-> "createSpherePyramid",
                tree |-> createSpherePyramid(fin.level, fin.c, fin.r)]
    /\ fpc' = "built"
    /\ UNCHANGED <<fin>>
    /\ UNCHANGED rvars

NextPyramid == DoCreate
SpecPyramid == InitPyramid /\ [][NextPyramid]_vars

(***************************************************************************)
(* Properties of the intersection engine.                                  *)
(***************************************************************************)
Intersected == fpc = "done" /\ fout.op = "Intersect"

\* C6: Intersect never increases hit.distance: after the call it is at most
\* what it was before, and the same holds at the call and at the return of
\* every node visited during the traversal, each against the one before.
C6_DistanceNeverIncreases ==
    Intersected =>
        /\ fout.hit.distance <= fout.h0.distance
        /\ \A i \in 1 .. Len(fout.log) :
              /\ fout.log[i].hit.distance <= fout.h0.distance
              /\ i > 1 => fout.log[i].hit.distance <= fout.log[i - 1].hit.distance

\* a nested traversal in which two children improve the hit, one after the other
C6_Witness ==
    /\ Intersected
    /\ \E i, j \in 1 .. Len(fout.log) :
          /\ i < j
          /\ fout.log[j].depth = 2
          /\ fout.log[j].hit.distance < fout.log[i].hit.distance
          /\ fout.log[i].hit.distance < fout.h0.distance
          /\ fout.h0.distance < infinity

\* the return that ends the call recorded at place i
ReturnOf(log, i) ==
    CHOOSE j \in (i + 1) .. Len(log) :
        /\ log[j].ev = "ret" /\ log[j].node = log[i].node /\ log[j].depth = log[i].depth
        /\ \A k \in (i + 1) .. (j - 1) :
              ~(log[k].ev = "ret" /\ log[k].node = log[i].node /\ log[k].depth = log[i].depth)

\* the nodes whose Intersect the call at place i invoked itself, in order
DirectCalls(log, i) ==
    LET inner == SubSeq(log, i + 1, ReturnOf(log, i) - 1)
        calls == SelectSeq(inner, LAMBDA e : e.ev = "call" /\ e.depth = log[i].depth + 1)
    IN  [k \in 1 .. Len(calls) |-> calls[k].node]

GroupCalls == {i \in 1 .. Len(fout.log) :
                  fout.log[i].ev = "call" /\ fin.scene[fout.log[i].node].kind = "Group"}
BoundDistance(i) == RaySphere(fin.scene[fout.log[i].node].bound, fin.ray)

\* C7: when RaySphere of a Group's bounding sphere is >= the current
\* hit.distance (equal included) the Group's Intersect returns at once: no
\* node of its subtree is visited and the hit record is unchanged; when it is
\* smaller, every direct child is visited exactly once, in stored order.
C7_GroupPruning ==
    Intersected =>
        \A i \in GroupCalls :
            IF BoundDistance(i) >= fout.log[i].hit.distance
            THEN /\ ReturnOf(fout.log, i) = i + 1
                 /\ fout.log[i + 1].hit = fout.log[i].hit
            ELSE DirectCalls(fout.log, i) = fin.scene[fout.log[i].node].children

\* a Group pruned on equality of two finite distances, inside a Group whose
\* children were all visited although the first had already improved the hit
C7_Witness ==
    /\ Intersected
    /\ \E i, j \in GroupCalls :
          /\ BoundDistance(i) < fout.log[i].hit.distance
          /\ fout.log[i + 2].hit.distance < fout.log[i].hit.distance
          /\ j > i
          /\ BoundDistance(j) = fout.log[j].hit.distance
          /\ BoundDistance(j) < infinity
          /\ ReturnOf(fout.log, j) = j + 1

\* the point of ray r at parameter t lies on sphere s
OnSphere(s, r, t) ==
    LET q == vec3sub(vec3add(r.orig, vec3mulf(r.dir, t)), s.center)
    IN  vec3dot(q, q) = s.radius * s.radius
Reach == (2 * MaxPos + 3 * MaxRad + 6) * Unit
\* the roots of the ray/sphere equation (integers, on these inputs)
Roots(s, r) == {t \in (-Reach) .. Reach : OnSphere(s, r, t)}
Least(S) == CHOOSE t \in S : \A u \in S : t <= u
Greatest(S) == CHOOSE t \in S : \A u \in S : t >= u

\* C8: RaySphere returns +infinity exactly when the half-line t >= 0 misses
\* the sphere (no root, or the greater root t2 < 0); otherwise the near root
\* t1 when t1 > 0 and the far root t2 when t1 <= 0.  It is never negative.
C8_RaySphereRoots ==
    (fpc = "done" /\ fout.op = "RaySphere") =>
        LET R == Roots(fout.sphere, fin.ray)
        IN  /\ fout.t >= 0
            /\ IF R = {} \/ Greatest(R) < 0
               THEN fout.t = infinity
               ELSE fout.t = (IF Least(R) > 0 THEN Least(R) ELSE Greatest(R))

\* the origin strictly inside the sphere: the far root is returned
C8_Witness ==
    /\ fpc = "done" /\ fout.op = "RaySphere"
    /\ Roots(fout.sphere, fin.ray) # {}
    /\ Least(Roots(fout.sphere, fin.ray)) < 0
    /\ Greatest(Roots(fout.sphere, fin.ray)) > 0
    /\ fout.t = Greatest(Roots(fout.sphere, fin.ray))

PrimaryHit == IntersectScene(fin.scene, hitinfinity, fin.ray).hit
LightDot == vec3dot(PrimaryHit.pos, fout.light)
\* the shadow ray, started from a hit distance of +infinity, hits geometry
ShadowHits ==
    IntersectScene(fin.scene, Hit(infinity, PrimaryHit.pos),
                   ShadowRay(PrimaryHit, fin.ray, fout.light)).hit.distance < infinity
Occluded == PrimaryHit.distance # infinity /\ (LightDot >= 0 \/ ShadowHits)

\* C9: rayTrace returns the background colour iff the primary ray hits
\* nothing, the ambient colour iff it hits and g >= 0 or the shadow ray hits
\* geometry, and ambient + diffuse * (-g) in the remaining case.
C9_RayTraceOutcomes ==
    (fpc = "done" /\ fout.op = "rayTrace") =>
        /\ fout.color = backgroundColor <=> PrimaryHit.distance = infinity
        /\ fout.color = ambientSphereColor <=> Occluded
        /\ (PrimaryHit.distance # infinity /\ ~Occluded) =>
              fout.color = vec3add(ambientSphereColor, vec3mulf(diffuseSphereColor, -LightDot))

\* a point facing the light and shadowed by other geometry
C9_Witness ==
    /\ fpc = "done" /\ fout.op = "rayTrace"
    /\ PrimaryHit.distance # infinity /\ LightDot < 0 /\ ShadowHits
    /\ fout.color = ambientSphereColor

(***************************************************************************)
(* Properties of the colour-to-byte conversion.                            *)
(***************************************************************************)
Clamp(v) == IF v < 0 THEN 0 ELSE IF v > 255 THEN 255 ELSE v
\* 0.5 + c*255 for c = num/CDen, as the fraction ScaledNum(num) / ScaledDen
ScaledNum(num) == CDen + 2 * 255 * num
ScaledDen == 2 * CDen
\* the nearest integer of n/d, halves away from zero
Round(n, d) == IF n >= 0 THEN (2 * n + d) \div (2 * d) ELSE -((d - 2 * n) \div (2 * d))
\* the greatest integer not above n/d
Floor(n, d) == n \div d
Written == fpc = "done" /\ fout.op = "SetV"
PixelAt == 4 * (fin.w * fin.y + fin.x)

\* C10: every colour component c written through SetV is stored as the byte
\* clamp(floor(0.5 + c*255), 0, 255): 0 when c scales below 0, 255 when it
\* scales above 255, never wrapped modulo 256; the alpha byte is 255.
C10_ByteIsClampedFloor ==
    Written =>
        /\ fout.ok
        /\ \A k \in 1 .. 3 :
              /\ buf[PixelAt + k - 1] = Clamp(Floor(ScaledNum(fin.v[k]), ScaledDen))
              /\ ScaledNum(fin.v[k]) < 0 => buf[PixelAt + k - 1] = 0
              /\ ScaledNum(fin.v[k]) > 255 * ScaledDen => buf[PixelAt + k - 1] = 255
        /\ buf[PixelAt + 3] = 255

\* a component below the range, one that scales to 51.5, one above the range
C10_Witness ==
    /\ Written
    /\ fin.v = <<-1, 2, 11>>
    /\ buf[PixelAt] = 0 /\ buf[PixelAt + 1] = 51 /\ buf[PixelAt + 2] = 255
    /\ buf[PixelAt + 3] = 255

\* C10 as stated: the stored byte is clamp(round(0.5 + c*255), 0, 255)
C10_ByteIsClampedRound ==
    Written =>
        /\ \A k \in 1 .. 3 :
              buf[PixelAt + k - 1] = Clamp(Round(ScaledNum(fin.v[k]), ScaledDen))
        /\ buf[PixelAt + 3] = 255

(***************************************************************************)
(* Properties of createSpherePyramid.                                      *)
(***************************************************************************)
Built == fpc = "built" /\ fout.op = "createSpherePyramid"

RECURSIVE TreeDepth(_)
TreeDepth(t) ==
    IF t.kind = "Sphere" THEN 1
    ELSE 1 + TreeDepth(CHOOSE c \in {t.children[i] : i \in DOMAIN t.children} :
                         \A i \in DOMAIN t.children : TreeDepth(c) >= TreeDepth(t.children[i]))
RECURSIVE LeafSpheres(_)
\* the leaf spheres of a tree, as a sequence in traversal order
LeafSpheres(t) ==
    IF t.kind = "Sphere" THEN <<t>>
    ELSE LET cat[i \in 0 .. Len(t.children)] ==
                 IF i = 0 THEN <<>> ELSE cat[i - 1] \o LeafSpheres(t.children[i])
         IN  cat[Len(t.children)]
\* the offsets the claim lists, in its order
StatedOffsets == << <<-1, -1>>, <<1, -1>>, <<-1, 1>>, <<1, 1>> >>
RECURSIVE IsPyramid(_, _, _, _)
IsPyramid(t, L, c, r) ==
    IF L = 1 THEN t = [kind |-> "Sphere", center |-> c, radius |-> r]
    ELSE /\ t.kind = "Group"
         /\ Len(t.children) = 5
         /\ t.children[1] = [kind |-> "Sphere", center |-> c, radius |-> r]
         /\ 2 * (r \div 2) = r
         /\ \A i \in 1 .. 4 :
               IsPyramid(t.children[i + 1], L - 1,
                         << c[1] + 3 * r * StatedOffsets[i][1], c[2] + 3 * r,
                            c[3] + 3 * r * StatedOffsets[i][2] >>,
                         r \div 2)

\* C11: for L >= 1 createSpherePyramid(L, c, r) returns Sphere(c, r) when
\* L = 1, else a Group of exactly 5 children: Sphere(c, r), then the
\* sub-pyramids of level L-1 and radius r/2 at c + rn*(dx, 1, dz) for
\* (dx, dz) = (-1,-1), (1,-1), (-1,1), (1,1); the tree has depth L and
\* (4^L - 1)/3 leaf spheres.
C11_PyramidShape ==
    Built =>
        /\ IsPyramid(fout.tree, fin.level, fin.c, fin.r)
        /\ TreeDepth(fout.tree) = fin.level
        /\ 3 * Len(LeafSpheres(fout.tree)) = 4 ^ fin.level - 1

\* a pyramid of three levels: 21 leaf spheres
C11_Witness ==
    /\ Built
    /\ fin.level = 3
    /\ fout.tree.kind = "Group"
    /\ fout.tree.children[2].kind = "Group"
    /\ Len(LeafSpheres(fout.tree)) = 21

RECURSIVE Subtrees(_)
\* a tree and every tree below it
Subtrees(t) ==
    IF t.kind = "Sphere" THEN {t}
    ELSE {t} \cup UNION {Subtrees(t.children[i]) : i \in DOMAIN t.children}
PyramidGroups(t) == {g \in Subtrees(t) : g.kind = "Group"}
\* 12 * |a - b|^2 for centres a, b, which are kept in units of 1/sqrt(12)
Dist2Times12(a, b) == vec3dot(vec3sub(a, b), vec3sub(a, b))
\* |s.center - b.center| + s.radius <= b.radius, in exact arithmetic
InsideSphere(s, b) ==
    /\ b.radius - s.radius >= 0
    /\ Dist2Times12(s.center, b.center) <= 12 * (b.radius - s.radius) * (b.radius - s.radius)

\* C15: for L >= 2, every Group of the tree built by createSpherePyramid has
\* the bounding sphere (cg, Rg = 3 * the radius of its own sphere), and every
\* descendant leaf sphere (c', r') satisfies |c' - cg| + r' <= Rg exactly.
C15_BoundsEncloseLeaves ==
    (Built /\ fin.level >= 2) =>
        \A g \in PyramidGroups(fout.tree) :
            /\ g.bound.center = g.children[1].center
            /\ g.bound.radius = 3 * g.children[1].radius
            /\ \A i \in 1 .. Len(LeafSpheres(g)) : InsideSphere(LeafSpheres(g)[i], g.bound)

\* a three-level pyramid: a leaf two levels below the root lies inside the
\* root's bounding sphere and outside the sphere of radius 2r
C15_Witness ==
    /\ Built /\ fin.level = 3
    /\ \E i \in 1 .. Len(LeafSpheres(fout.tree)) :
          /\ InsideSphere(LeafSpheres(fout.tree)[i], fout.tree.bound)
          /\ ~InsideSphere(LeafSpheres(fout.tree)[i],
                           [kind |-> "Sphere", center |-> fin.c, radius |-> 2 * fin.r])

(***************************************************************************)
(* Properties of the worker protocol.                                      *)
(***************************************************************************)
\* the scheduler's states: before the tiles, Dispatching, Draining, Joined
Phase(pc) ==
    IF pc \in {"alloc", "build", "spawn"} THEN 0
    ELSE IF pc = "tiles" THEN 1
    ELSE IF pc \in {"quit", "join"} THEN 2
    ELSE 3
\* the steps a worker may take: started, Idle -> Rendering -> Idle, Idle ->
\* quit consumed -> acknowledgment sent and Terminated
WorkerStep(a, b) ==
    \/ a = "unborn" /\ b = "select"
    \/ a = "select" /\ b = "render"
    \/ a = "render" /\ b = "select"
    \/ a = "select" /\ b = "ack"
    \/ a = "ack" /\ b = "returned"
TileCount == TilesAcross(cfg) * TilesDown(cfg)

\* C12: workers go Idle -> Rendering -> Idle -> ... -> Terminated and the
\* scheduler Dispatching -> Draining -> Joined, never back; a quit signal is
\* consumed only by an Idle worker and only when every tile has been sent
\* and received; a worker consumes one quit and sends one acknowledgment,
\* and after its quit it receives no tile; at Joined every worker has done so.
C12_ProtocolOrder ==
    /\ [][ /\ \A k \in Workers : wpc'[k] # wpc[k] => WorkerStep(wpc[k], wpc'[k])
           /\ (~Crashed /\ mpc' \notin {"panic", "overflow"}) => Phase(mpc') >= Phase(mpc)
           /\ \A k \in Workers :
                 (wpc[k] # "ack" /\ wpc'[k] = "ack") =>
                     /\ wpc[k] = "select"
                     /\ sent = TileCount /\ Phase(mpc) = 2
                     /\ \A j \in Workers \ {k} : wpc'[j] = wpc[j]
           /\ \A k \in Workers :
                 wpc[k] \in {"ack", "returned"} =>
                     wrect'[k] = wrect[k] /\ wpc'[k] \in {"ack", "returned"}
           /\ sent' # sent => Phase(mpc) = 1
         ]_vars
    /\ [](Joined => \A k \in Workers : wpc[k] = "returned")
    /\ [](Phase(mpc) = 1 => \A k \in Workers : wpc[k] \in {"select", "render"})

\* Draining: one worker has consumed its quit while the other, still in the
\* middle of its tile, has not been sent one
C12_Witness ==
    /\ mpc = "quit"
    /\ \E k, j \in Workers : wpc[k] = "ack" /\ wpc[j] = "render"

(***************************************************************************)
(* The bounding-sphere test against an unpruned traversal.                 *)
(***************************************************************************)
RECURSIVE LeavesBelow(_, _)
\* the leaf spheres at or below node n of scene sc
LeavesBelow(sc, n) ==
    IF sc[n].kind = "Sphere" THEN {sc[n]}
    ELSE UNION {LeavesBelow(sc, sc[n].children[i]) : i \in DOMAIN sc[n].children}
\* |s.center - b.center| + s.radius <= b.radius for centres on the lattice
Encloses(b, s) ==
    /\ b.radius - s.radius >= 0
    /\ vec3dot(vec3sub(s.center, b.center), vec3sub(s.center, b.center))
          <= (b.radius - s.radius) * (b.radius - s.radius)
\* every Group's bounding sphere encloses all its descendant leaves
WellBounded(sc) ==
    \A n \in DOMAIN sc :
        sc[n].kind = "Group" => \A s \in LeavesBelow(sc, n) : Encloses(sc[n].bound, s)
Smallest(S) == CHOOSE t \in S : \A u \in S : t <= u
\* what a traversal of all leaves without the bounding test yields
UnprunedDistance(sc, d, r) ==
    Smallest({d} \cup {RaySphere(s, r) : s \in LeavesBelow(sc, Root)})

\* C13: for every tree whose bounding spheres enclose all their descendants,
\* every ray and every initial hit record, Intersect leaves hit.distance at
\* min(initial distance, least RaySphere over the descendant leaf spheres).
C13_PruningChangesNoResult ==
    (Intersected /\ WellBounded(fin.scene)) =>
        fout.hit.distance = UnprunedDistance(fin.scene, fout.h0.distance, fin.ray)

\* the same, for rays that start outside every bounding sphere
OriginOutsideBounds ==
    \A n \in DOMAIN fin.scene :
        fin.scene[n].kind = "Group" =>
            vec3dot(vec3sub(fin.ray.orig, fin.scene[n].bound.center),
                    vec3sub(fin.ray.orig, fin.scene[n].bound.center))
                > fin.scene[n].bound.radius * fin.scene[n].bound.radius
PruningChangesNoResultFromOutside ==
    (Intersected /\ WellBounded(fin.scene) /\ OriginOutsideBounds) =>
        fout.hit.distance = UnprunedDistance(fin.scene, fout.h0.distance, fin.ray)
\* the same from inside, when the traversal starts from +infinity: only
\* whether anything is hit is preserved, which is all a shadow ray asks
PruningKeepsShadowAnswer ==
    (Intersected /\ WellBounded(fin.scene) /\ fout.h0.distance = infinity) =>
        (fout.hit.distance < infinity
            <=> UnprunedDistance(fin.scene, infinity, fin.ray) < infinity)
PruningFromInfinity ==
    (Intersected /\ WellBounded(fin.scene) /\ fout.h0.distance = infinity) =>
        fout.hit.distance = UnprunedDistance(fin.scene, infinity, fin.ray)

(***************************************************************************)
(* The Rects main sends.                                                   *)
(***************************************************************************)
\* 0 <= l < r <= width and 0 <= t < b <= height
RectInsideImage(r) ==
    /\ 0 <= r.l /\ r.l < r.r /\ r.r <= cfg.w
    /\ 0 <= r.t /\ r.t < r.b /\ r.b <= cfg.h

\* C14: for all width, height, tile width and tile height > 0, dividing or
\* not, every Rect received from jobChan lies inside the image, so no SetRgba
\* call of renderRect indexes outside the buffer (the run never panics) and
\* every pixel a worker is about to write is a pixel of the image.
C14_RectsInsideImage ==
    /\ mpc # "panic"
    /\ \A k \in Workers :
          wpc[k] = "render" =>
              /\ RectInsideImage(wrect[k])
              /\ 0 <= wx[k] /\ wx[k] < cfg.w
              /\ 0 <= wy[k] /\ wy[k] < cfg.h

=============================================================================
